---- MODULE Spec2Model ----
(***************************************************************************)
(* The ciphersuite descriptor of molasses (src/crypto/ciphersuite.rs):     *)
(* the two registry constants, name-only equality, the Debug rendering and *)
(* derive_key_pair, run by concurrent callers over shared read-only suites.*)
(*                                                                         *)
(* The hash is an uninterpreted function: the digest of input d under      *)
(* algorithm a is the byte string "bytes 1..output_len(a) of H_a(d)".      *)
(* The key-agreement capabilities live outside ciphersuite.rs; they are    *)
(* modelled as arbitrary but fixed deterministic functions: which scalars  *)
(* a capability forbids, and the error it reports, are chosen in Init.     *)
(***************************************************************************)
EXTENDS Integers, Sequences, FiniteSets, TLC

\* ---------------------------------------------------------------- bounds
MaxLen == 1          \* longest input byte string handed to derive_key_pair
MaxForbidden == 1    \* most (capability, scalar) pairs rejected by value

Callers == {1, 2}
ByteVals == {104}

RECURSIVE ByteStringsUpTo(_)
ByteStringsUpTo(n) ==
    IF n = 0 THEN {<<>>}
    ELSE LET shorter == ByteStringsUpTo(n - 1)
         IN  shorter \cup {Append(s, b) : s \in {t \in shorter : Len(t) = n - 1}, b \in ByteVals}

Inputs == ByteStringsUpTo(MaxLen)

None == [tag |-> "none"]

\* ------------------------------------------------- external collaborators
HashAlgs == {"SHA256", "SHA384"}
DhImpls == {"X25519_IMPL", "P256_IMPL"}

\* ring::digest::Algorithm::output_len
output_len(alg) == IF alg = "SHA256" THEN 32 ELSE 48

\* ring::digest::digest(alg, data): an opaque Digest of fixed length
digest(alg, data) ==
    [algorithm |-> alg,
     value |-> [h |-> alg, of |-> data, from |-> 1, to |-> output_len(alg)]]

\* Digest::as_ref(): the digest's bytes, all of them
as_ref(d) == d.value

ByteLen(b) == b.to - b.from + 1

\* the private-key length a key-agreement group requires
scalar_size(dh) == 32

Errors ==
    { [category |-> "KeyDerivation", detail |-> "invalid scalar"],
      [category |-> "CapabilityError", detail |-> "invalid scalar"] }

Ok(v) == [tag |-> "Ok", val |-> v]
Err(e) == [tag |-> "Err", err |-> e]

\* every 32-byte string derive_key_pair can present to a capability
ScalarCandidates ==
    { as_ref(digest(a, i)) : a \in {h \in HashAlgs : output_len(h) = 32}, i \in Inputs }

VARIABLES
    suites,      \* the CipherSuite values in memory, by identifier
    forbidden,   \* per capability: the scalars its constructor rejects by value
    capErr,      \* per capability: the Error its constructor reports
    frame        \* per caller: the operation in progress and its locals

vars == <<suites, forbidden, capErr, frame>>

\* DiffieHellman::private_key_from_bytes
private_key_from_bytes(dh, bytes) ==
    IF ByteLen(bytes) # scalar_size(dh) \/ bytes \in forbidden[dh]
    THEN Err(capErr[dh])
    ELSE Ok([kind |-> "priv", group |-> dh, scalar |-> bytes])

\* DiffieHellman::derive_public_key
derive_public_key(dh, privkey) ==
    [kind |-> "pub", group |-> dh, point |-> privkey.scalar]

\* ------------------------------------------------------------- the registry
X25519_SHA256_AES128GCM ==
    [name |-> "X25519_SHA256_AES128GCM",
     dh_impl |-> "X25519_IMPL",
     aead_impl |-> "AES128GCM_IMPL",
     hash_alg |-> "SHA256"]

\* the second constant wired to a 48-byte hash
P256_with_SHA384 ==
    [name |-> "P256_SHA256_AES128GCM",
     dh_impl |-> "P256_IMPL",
     aead_impl |-> "AES128GCM_IMPL",
     hash_alg |-> "SHA384"]

\* the second constant carrying the first one's name
P256_named_X25519 ==
    [name |-> "X25519_SHA256_AES128GCM",
     dh_impl |-> "P256_IMPL",
     aead_impl |-> "AES128GCM_IMPL",
     hash_alg |-> "SHA256"]

P256_SHA256_AES128GCM ==
    [name |-> "P256_SHA256_AES128GCM",
     dh_impl |-> "P256_IMPL",
     aead_impl |-> "AES128GCM_IMPL",
     hash_alg |-> "SHA256"]

\* suites built elsewhere in the crate from the pub(crate) fields
TEST_A ==
    [name |-> "TEST",
     dh_impl |-> "X25519_IMPL",
     aead_impl |-> "AES128GCM_IMPL",
     hash_alg |-> "SHA256"]

TEST_B ==
    [name |-> "TEST",
     dh_impl |-> "P256_IMPL",
     aead_impl |-> "AES128GCM_IMPL",
     hash_alg |-> "SHA384"]

Registry == {"X25519", "P256"}
SuiteIds == Registry \cup {"TEST_A", "TEST_B"}

SuiteAt(id) ==
    CASE id = "X25519" -> X25519_SHA256_AES128GCM
      [] id = "P256" -> P256_SHA256_AES128GCM
      [] id = "TEST_A" -> TEST_A
      [] OTHER -> TEST_B

\* ------------------------------------------------------------ PartialEq
\* equality as #[derive(PartialEq)] would define it
eq_structural(self, other) == self = other

eq(self, other) == self.name = other.name

\* ---------------------------------------------------------------- Debug
\* a core::fmt::Formatter: the text already written to its sink
Formatters == { [buf |-> p] : p \in {"", "suite="} }

write_str(f, s) == [f EXCEPT !.buf = f.buf \o s]

\* a rendering that also shows the key-agreement capability
fmt_with_capability(self, f) == write_str(write_str(write_str(f, self.name), "/"), self.dh_impl)

fmt(self, f) == write_str(f, self.name)

\* ------------------------------------------------------- derive_key_pair
\* the digest taken with SHA256 whatever the suite wires
scalar_bytes_sha256(self, bytes) == as_ref(digest("SHA256", bytes))

\* lines 65-66: the digest's bytes under the suite's own hash algorithm
scalar_bytes_of(self, bytes) == as_ref(digest(self.hash_alg, bytes))

\* a ? that converts every error into the KeyDerivation category
question_mark_recategorised(r) ==
    IF r.tag = "Err" THEN Err([r.err EXCEPT !.category = "KeyDerivation"]) ELSE r

\* the ? of line 68: Err(e) leaves the function as Err(From::from(e)), and
\* From<Error> for Error is the identity
question_mark(r) == IF r.tag = "Err" THEN Err(r.err) ELSE r

\* the public key derived with the X25519 capability for every suite
pubkey_of_x25519(self, privkey) == derive_public_key("X25519_IMPL", privkey)

\* line 69
pubkey_of(self, privkey) == derive_public_key(self.dh_impl, privkey)

\* line 71
KeyPair(pubkey, privkey) == Ok([pub |-> pubkey, priv |-> privkey])

Idle ==
    [op |-> "none", pc |-> "idle", self |-> "-", other |-> "-", bytes |-> <<>>,
     f |-> None, scalar_bytes |-> None, privkey |-> None, pubkey |-> None,
     ret |-> None, calls |-> <<>>]

Free(c) == frame[c].pc \in {"idle", "returned"}

CallDeriveKeyPair(c, s, b) ==
    /\ Free(c)
    /\ frame' = [frame EXCEPT ![c] =
                    [Idle EXCEPT !.op = "derive_key_pair", !.pc = "L65",
                                 !.self = s, !.bytes = b]]
    /\ UNCHANGED <<suites, forbidden, capErr>>

\* the digest input mixed with a per-caller value
Line65_salted(c) ==
    /\ frame[c].pc = "L65"
    /\ frame' = [frame EXCEPT
                    ![c].scalar_bytes =
                        scalar_bytes_of(suites[frame[c].self], Append(frame[c].bytes, c)),
                    ![c].pc = "L68"]
    /\ UNCHANGED <<suites, forbidden, capErr>>

\* the digest kept in one scratch buffer shared by all callers
Line65_shared_scratch(c) ==
    /\ frame[c].pc = "L65"
    /\ LET v == scalar_bytes_of(suites[frame[c].self], frame[c].bytes)
       IN  frame' = [d \in Callers |->
                        IF d = c THEN [frame[d] EXCEPT !.scalar_bytes = v, !.pc = "L68"]
                        ELSE IF frame[d].pc = "L68" THEN [frame[d] EXCEPT !.scalar_bytes = v]
                        ELSE frame[d]]
    /\ UNCHANGED <<suites, forbidden, capErr>>

Line65(c) ==
    /\ frame[c].pc = "L65"
    /\ frame' = [frame EXCEPT
                    ![c].scalar_bytes = scalar_bytes_of(suites[frame[c].self], frame[c].bytes),
                    ![c].pc = "L68"]
    /\ UNCHANGED <<suites, forbidden, capErr>>

\* a rejected digest retried once with the re-hashed input
Line68_retry(c) ==
    /\ frame[c].pc = "L68"
    /\ LET dh == suites[frame[c].self].dh_impl
           r1 == private_key_from_bytes(dh, frame[c].scalar_bytes)
           again == scalar_bytes_of(suites[frame[c].self], Append(frame[c].bytes, 0))
           r2 == private_key_from_bytes(dh, again)
           call1 == [fn |-> "private_key_from_bytes", impl |-> dh,
                     arg |-> frame[c].scalar_bytes, result |-> r1]
           call2 == [fn |-> "private_key_from_bytes", impl |-> dh,
                     arg |-> again, result |-> r2]
           r == IF r1.tag = "Ok" THEN r1 ELSE r2
       IN  frame' = [frame EXCEPT
                        ![c].calls = IF r1.tag = "Ok" THEN <<call1>> ELSE <<call1, call2>>,
                        ![c].privkey = IF r.tag = "Ok" THEN r.val ELSE None,
                        ![c].ret = IF r.tag = "Ok" THEN None ELSE question_mark(r),
                        ![c].pc = IF r.tag = "Ok" THEN "L69" ELSE "returned"]
    /\ UNCHANGED <<suites, forbidden, capErr>>

Line68(c) ==
    /\ frame[c].pc = "L68"
    /\ LET dh == suites[frame[c].self].dh_impl
           r == private_key_from_bytes(dh, frame[c].scalar_bytes)
           call == [fn |-> "private_key_from_bytes", impl |-> dh,
                    arg |-> frame[c].scalar_bytes, result |-> r]
       IN  frame' = [frame EXCEPT
                        ![c].calls = Append(@, call),
                        ![c].privkey = IF r.tag = "Ok" THEN r.val ELSE None,
                        ![c].ret = IF r.tag = "Ok" THEN None ELSE question_mark(r),
                        ![c].pc = IF r.tag = "Ok" THEN "L69" ELSE "returned"]
    /\ UNCHANGED <<suites, forbidden, capErr>>

Line69(c) ==
    /\ frame[c].pc = "L69"
    /\ LET dh == suites[frame[c].self].dh_impl
           p == pubkey_of(suites[frame[c].self], frame[c].privkey)
           call == [fn |-> "derive_public_key", impl |-> dh,
                    arg |-> frame[c].privkey, result |-> p]
       IN  frame' = [frame EXCEPT
                        ![c].calls = Append(@, call),
                        ![c].pubkey = p,
                        ![c].pc = "L71"]
    /\ UNCHANGED <<suites, forbidden, capErr>>

Line71(c) ==
    /\ frame[c].pc = "L71"
    /\ frame' = [frame EXCEPT
                    ![c].ret = KeyPair(frame[c].pubkey, frame[c].privkey),
                    ![c].pc = "returned"]
    /\ UNCHANGED <<suites, forbidden, capErr>>

CallEq(c, a, b) ==
    /\ Free(c)
    /\ frame' = [frame EXCEPT ![c] =
                    [Idle EXCEPT !.op = "eq", !.pc = "returned",
                                 !.self = a, !.other = b,
                                 !.ret = [tag |-> "bool", b |-> eq(suites[a], suites[b])]]]
    /\ UNCHANGED <<suites, forbidden, capErr>>

CallFmt(c, s, f) ==
    /\ Free(c)
    /\ frame' = [frame EXCEPT ![c] =
                    [Idle EXCEPT !.op = "fmt", !.pc = "returned",
                                 !.self = s, !.f = f,
                                 !.ret = [tag |-> "fmt", f |-> fmt(suites[s], f)]]]
    /\ UNCHANGED <<suites, forbidden, capErr>>

Init ==
    /\ suites = [id \in SuiteIds |-> SuiteAt(id)]
    /\ forbidden \in [DhImpls -> SUBSET ScalarCandidates]
    /\ Cardinality({p \in DhImpls \X ScalarCandidates : p[2] \in forbidden[p[1]]}) <= MaxForbidden
    /\ capErr \in [DhImpls -> Errors]
    /\ frame = [c \in Callers |-> Idle]

Next ==
    \E c \in Callers :
        \/ \E s \in SuiteIds, b \in Inputs : CallDeriveKeyPair(c, s, b)
        \/ Line65(c)
        \/ Line68(c)
        \/ Line69(c)
        \/ Line71(c)
        \/ \E a \in SuiteIds, b \in SuiteIds : CallEq(c, a, b)
        \/ \E s \in SuiteIds, f \in Formatters : CallFmt(c, s, f)

Spec == Init /\ [][Next]_vars

\* ------------------------------------------------------------ properties
Returned(c, op) == frame[c].pc = "returned" /\ frame[c].op = op

SelfOf(c) == suites[frame[c].self]
OtherOf(c) == suites[frame[c].other]

SameCapabilities(a, b) ==
    /\ a.dh_impl = b.dh_impl
    /\ a.aead_impl = b.aead_impl
    /\ a.hash_alg = b.hash_alg

\* the first capability call of a derive_key_pair frame rejected the digest
Rejected(c) ==
    /\ Len(frame[c].calls) >= 1
    /\ frame[c].calls[1].fn = "private_key_from_bytes"
    /\ frame[c].calls[1].result.tag = "Err"

CallsTo(c, fn) == {i \in 1..Len(frame[c].calls) : frame[c].calls[i].fn = fn}

\* C1: a == b holds exactly when the two names are the same string; suites
\* with one name and different capabilities are equal, suites with the same
\* capabilities and different names are not.
C1_EqualityIsNameEquality ==
    \A c \in Callers :
        Returned(c, "eq") =>
            /\ frame[c].ret.b <=> (SelfOf(c).name = OtherOf(c).name)
            /\ SelfOf(c).name = OtherOf(c).name /\ ~SameCapabilities(SelfOf(c), OtherOf(c))
                  => frame[c].ret.b
            /\ SelfOf(c).name # OtherOf(c).name /\ SameCapabilities(SelfOf(c), OtherOf(c))
                  => ~frame[c].ret.b

C1_Witness ==
    \E c, d \in Callers :
        /\ Returned(c, "eq") /\ Returned(d, "eq")
        /\ SelfOf(c).name = OtherOf(c).name
        /\ SelfOf(c).dh_impl # OtherOf(c).dh_impl
        /\ frame[c].ret.b
        /\ SelfOf(d).name # OtherOf(d).name
        /\ SameCapabilities(SelfOf(d), OtherOf(d))
        /\ ~frame[d].ret.b

\* C2: the Debug rendering writes the suite's name and nothing else: the text
\* added to the formatter is the name, into an empty formatter the output is
\* the name, and two suites of one name render alike whatever they wire.
C2_DebugWritesOnlyTheName ==
    \A c \in Callers :
        Returned(c, "fmt") =>
            /\ frame[c].ret.f.buf = frame[c].f.buf \o SelfOf(c).name
            /\ frame[c].f.buf = "" => frame[c].ret.f.buf = SelfOf(c).name
            /\ \A d \in Callers :
                  /\ Returned(d, "fmt")
                  /\ SelfOf(d).name = SelfOf(c).name
                  /\ frame[d].f = frame[c].f
                  => frame[d].ret = frame[c].ret

C2_Witness ==
    \E c, d \in Callers :
        /\ Returned(c, "fmt") /\ Returned(d, "fmt")
        /\ SelfOf(c).name = SelfOf(d).name
        /\ SelfOf(c).dh_impl # SelfOf(d).dh_impl
        /\ frame[c].f.buf = "" /\ frame[d].f.buf = ""
        /\ frame[c].ret.f.buf = "TEST" /\ frame[d].ret.f.buf = "TEST"

\* C3: two calls of derive_key_pair with the same suite and the same bytes
\* end in the same outcome: the same error, or the same pair of keys.
C3_DeriveIsDeterministic ==
    \A c, d \in Callers :
        /\ Returned(c, "derive_key_pair")
        /\ Returned(d, "derive_key_pair")
        /\ frame[c].self = frame[d].self
        /\ frame[c].bytes = frame[d].bytes
        => frame[c].ret = frame[d].ret

C3_Witness ==
    \E c, d \in Callers :
        /\ c # d
        /\ Returned(c, "derive_key_pair")
        /\ Returned(d, "derive_key_pair")
        /\ frame[c].self = frame[d].self
        /\ frame[c].bytes = frame[d].bytes
        /\ frame[c].ret.tag = "Ok"
        /\ frame[d].ret.tag = "Ok"

\* C4: a successful derive_key_pair returns (public key, private key), and the
\* public key is the suite's capability's derive_public_key of that private key.
C4_PublicKeyBelongsToPrivateKey ==
    \A c \in Callers :
        Returned(c, "derive_key_pair") /\ frame[c].ret.tag = "Ok" =>
            /\ frame[c].ret.val.pub.kind = "pub"
            /\ frame[c].ret.val.priv.kind = "priv"
            /\ frame[c].ret.val.pub =
                  derive_public_key(SelfOf(c).dh_impl, frame[c].ret.val.priv)

C4_Witness ==
    \E c \in Callers :
        /\ Returned(c, "derive_key_pair")
        /\ frame[c].ret.tag = "Ok"
        /\ SelfOf(c).dh_impl = "P256_IMPL"

\* C5 as stated: when the constructor rejects the digest, derive_key_pair fails
\* with an error of the KeyDerivation category, whatever the capability reported.
C5_AlwaysKeyDerivation ==
    \A c \in Callers :
        Returned(c, "derive_key_pair") /\ Rejected(c) =>
            /\ frame[c].ret.tag = "Err"
            /\ frame[c].ret.err.category = "KeyDerivation"

\* C5 amended: when the constructor rejects the digest, derive_key_pair fails
\* with an error of the category the capability reported; it is KeyDerivation
\* exactly when the capability's own error is.
C5_CategoryIsTheCapabilitys ==
    \A c \in Callers :
        Returned(c, "derive_key_pair") /\ Rejected(c) =>
            /\ frame[c].ret.tag = "Err"
            /\ frame[c].ret.err.category = frame[c].calls[1].result.err.category
            /\ frame[c].ret.err.category = capErr[SelfOf(c).dh_impl].category

C5_Witness ==
    \E c \in Callers :
        /\ Returned(c, "derive_key_pair")
        /\ Rejected(c)
        /\ frame[c].ret.tag = "Err"
        /\ frame[c].ret.err.category = "CapabilityError"

\* C6: when the constructor returns an error, derive_key_pair returns that very
\* error; every call invokes the constructor exactly once, and a failed call
\* invokes nothing after it (no second attempt, no derive_public_key).
C6_ErrorSurfacedUnchangedNoRetry ==
    \A c \in Callers :
        Returned(c, "derive_key_pair") =>
            /\ Cardinality(CallsTo(c, "private_key_from_bytes")) = 1
            /\ Rejected(c) =>
                  /\ frame[c].ret = [tag |-> "Err", err |-> frame[c].calls[1].result.err]
                  /\ Len(frame[c].calls) = 1
                  /\ CallsTo(c, "derive_public_key") = {}

C6_Witness ==
    \E c \in Callers :
        /\ Returned(c, "derive_key_pair")
        /\ Rejected(c)
        /\ frame[c].self \in Registry
        /\ frame[c].ret.tag = "Err"

\* C7: every registry suite's digest length equals its group's private-key
\* length, so a registry suite never presents a scalar of the wrong length and
\* fails only when the capability forbids the value.
C7_RegistryLengthsMatch ==
    /\ \A s \in Registry : output_len(suites[s].hash_alg) = scalar_size(suites[s].dh_impl)
    /\ \A c \in Callers :
          /\ frame[c].op = "derive_key_pair"
          /\ frame[c].self \in Registry
          /\ Len(frame[c].calls) >= 1
          => /\ ByteLen(frame[c].calls[1].arg) = scalar_size(frame[c].calls[1].impl)
             /\ Rejected(c) => frame[c].calls[1].arg \in forbidden[frame[c].calls[1].impl]

C7_Witness ==
    \E c, d \in Callers :
        /\ Returned(c, "derive_key_pair") /\ frame[c].self = "X25519" /\ frame[c].ret.tag = "Ok"
        /\ Returned(d, "derive_key_pair") /\ frame[d].self = "P256" /\ frame[d].ret.tag = "Err"

\* C8: the registry constants carry the two different names
\* X25519_SHA256_AES128GCM and P256_SHA256_AES128GCM, so == between registry
\* constants is true only of a constant and itself.
C8_RegistryNamesAreDistinct ==
    /\ suites["X25519"].name = "X25519_SHA256_AES128GCM"
    /\ suites["P256"].name = "P256_SHA256_AES128GCM"
    /\ \A a, b \in Registry : a # b => suites[a].name # suites[b].name
    /\ \A c \in Callers :
          /\ Returned(c, "eq")
          /\ frame[c].self \in Registry
          /\ frame[c].other \in Registry
          => (frame[c].ret.b <=> frame[c].self = frame[c].other)

C8_Witness ==
    \E c, d \in Callers :
        /\ Returned(c, "eq") /\ frame[c].self = "X25519" /\ frame[c].other = "P256"
        /\ ~frame[c].ret.b
        /\ Returned(d, "eq") /\ frame[d].self = "P256" /\ frame[d].other = "P256"
        /\ frame[d].ret.b

\* C9: derive_key_pair hands the suite's own constructor the whole digest of
\* the input under the suite's own hash algorithm; it returns Ok exactly when
\* the constructor accepts, with the constructor's key as the private key, and
\* every call in progress goes on to an explicit Ok or Err.
C9_WholeDigestToOwnConstructor ==
    \A c \in Callers :
        /\ frame[c].op = "derive_key_pair" /\ Len(frame[c].calls) >= 1 =>
              /\ frame[c].calls[1].fn = "private_key_from_bytes"
              /\ frame[c].calls[1].impl = SelfOf(c).dh_impl
              /\ frame[c].calls[1].arg =
                    [h |-> SelfOf(c).hash_alg, of |-> frame[c].bytes,
                     from |-> 1, to |-> output_len(SelfOf(c).hash_alg)]
        /\ Returned(c, "derive_key_pair") =>
              /\ frame[c].ret.tag \in {"Ok", "Err"}
              /\ frame[c].ret.tag = "Ok" <=> frame[c].calls[1].result.tag = "Ok"
              /\ frame[c].ret.tag = "Ok" =>
                    frame[c].ret.val.priv = frame[c].calls[1].result.val
        /\ frame[c].pc \in {"L65", "L68", "L69", "L71"} =>
              ENABLED (Line65(c) \/ Line68(c) \/ Line69(c) \/ Line71(c))

C9_Witness ==
    \E c, d \in Callers :
        /\ Returned(c, "derive_key_pair")
        /\ frame[c].bytes = <<>>
        /\ frame[c].ret.tag = "Ok"
        /\ Returned(d, "derive_key_pair")
        /\ SelfOf(d).hash_alg = "SHA384"
        /\ frame[d].ret.tag = "Err"

\* what one call of derive_key_pair returns when nothing else runs
DeriveAlone(suite, bytes) ==
    LET r == private_key_from_bytes(suite.dh_impl, scalar_bytes_of(suite, bytes))
    IN  IF r.tag = "Err" THEN question_mark(r)
        ELSE KeyPair(pubkey_of(suite, r.val), r.val)

\* C10: no operation changes a field of a suite, and under any interleaving
\* of callers every call returns what it returns when run alone.
C10_SuitesReadOnlyCallsIsolated ==
    /\ suites = [id \in SuiteIds |-> SuiteAt(id)]
    /\ \A c \in Callers :
          /\ Returned(c, "derive_key_pair") =>
                frame[c].ret = DeriveAlone(SuiteAt(frame[c].self), frame[c].bytes)
          /\ Returned(c, "eq") =>
                frame[c].ret.b = eq(SuiteAt(frame[c].self), SuiteAt(frame[c].other))
          /\ Returned(c, "fmt") =>
                frame[c].ret.f = fmt(SuiteAt(frame[c].self), frame[c].f)

C10_Witness ==
    \E c, d \in Callers :
        /\ Returned(c, "derive_key_pair")
        /\ frame[c].ret.tag = "Ok"
        /\ frame[d].op = "derive_key_pair"
        /\ frame[d].pc = "L69"
        /\ frame[d].self # frame[c].self
        /\ frame[d].bytes # frame[c].bytes

====
